---- MODULE Spec2Model ----
(***************************************************************************)
(* Model of the in-memory cache of dsha256/gredis (package cache,          *)
(* MemoryCache): the map of keys to typed, possibly expiring items, the    *)
(* readers-writer lock that guards it, lazy eviction on the read paths,    *)
(* and the background cleanup goroutine.                                    *)
(*                                                                         *)
(* Time is a discrete clock `now` (time.Now()); the zero time.Time is 0    *)
(* and the clock starts at 1, so a stored expireAt of 0 always means "no   *)
(* expiration", as in the source.                                          *)
(***************************************************************************)
EXTENDS Integers, Sequences, FiniteSets, TLC

\* ---------------------------------------------------------------- bounds
MaxTime == 4
MaxLen == 2

Procs == {"p1", "p2"}
Values == {"a", "b"}
TTLs == {-1, 0, 1, 2}
Indexes == {-1, 0, 1}

Times == 1..MaxTime

\* ------------------------------------------------------------ data types
StringType == 0
ListType == 1

ErrNil == "nil"
ErrKeyNotFound == "key not found"
ErrTypeMismatch == "type mismatch"

\* cacheItem{dataType, value, expireAt}; value is the dynamically typed
\* payload: a string (field str) or a *list.List (field lst).
StringItem(v, e) == [dataType |-> StringType, value |-> [str |-> v], expireAt |-> e]
ListItem(l, e) == [dataType |-> ListType, value |-> [lst |-> l], expireAt |-> e]

\* item.value.(string) and item.value.(*list.List): the casts panic when
\* the dynamic type is not the one asserted.
IsStr(val) == DOMAIN val = {"str"}
IsLst(val) == DOMAIN val = {"lst"}

\* Mutant of isExpired: the comparison includes the instant of expiry.
isExpiredAtInstant(item, t) == item.expireAt # 0 /\ t >= item.expireAt

\* Mutant of isExpired: the expiry check is dropped.
isExpiredNever(item, t) == FALSE

isExpired(item, t) == item.expireAt # 0 /\ t > item.expireAt

\* delete(c.items, key)
Delete(its, key) == [k \in DOMAIN its \ {key} |-> its[k]]

\* c.items[key] = item
Store(its, key, item) == [k \in DOMAIN its \cup {key} |-> IF k = key THEN item ELSE its[k]]

\* the result of one call: the error, the boolean, the string, the slice,
\* the duration and the DataType an operation returns (unused ones zero).
NoRes == [err |-> ErrNil, ok |-> FALSE, val |-> "", list |-> <<>>, ttl |-> 0, dt |-> 0]
Out(its, res) == [items |-> its, res |-> res, evict |-> FALSE]
OutEvict(its, res) == [items |-> its, res |-> res, evict |-> TRUE]

\* ------------------------------------------------- string operations
\* Get: under the read lock; a found-but-expired item sends the call
\* through the eviction path (evict = TRUE) and reports not-found.
Get(its, key, t) ==
  IF key \notin DOMAIN its THEN Out(its, NoRes)
  ELSE IF isExpired(its[key], t) THEN OutEvict(its, NoRes)
  ELSE IF its[key].dataType # StringType THEN Out(its, NoRes)
  ELSE Out(its, [NoRes EXCEPT !.ok = TRUE, !.val = its[key].value.str])

\* Mutant of set: the TTL is stored also when it is not positive.
setAnyTTL(its, key, value, ttl, t) ==
  Out(Store(its, key, StringItem(value, t + ttl)), NoRes)

\* Mutant of set: an existing item keeps its expireAt when overwritten.
setKeepExpiry(its, key, value, ttl, t) ==
  Out(Store(its, key, StringItem(value,
        IF ttl > 0 THEN t + ttl
        ELSE IF key \in DOMAIN its THEN its[key].expireAt ELSE 0)), NoRes)

\* Mutant of set: the TTL is stored as the expiry instant, not added to now.
setAbsoluteTTL(its, key, value, ttl, t) ==
  Out(Store(its, key, StringItem(value, IF ttl > 0 THEN ttl ELSE 0)), NoRes)

\* Mutant of set: only a zero TTL means no expiration.
setNegativeExpires(its, key, value, ttl, t) ==
  Out(Store(its, key, StringItem(value, IF ttl # 0 THEN t + ttl ELSE 0)), NoRes)

\* Mutant of set: an item already under the key is overwritten in place
\* and keeps its type tag.
setKeepsTag(its, key, value, ttl, t) ==
  Out(Store(its, key,
        [dataType |-> IF key \in DOMAIN its THEN its[key].dataType ELSE StringType,
         value |-> [str |-> value],
         expireAt |-> IF ttl > 0 THEN t + ttl ELSE 0]), NoRes)

set(its, key, value, ttl, t) ==
  Out(Store(its, key, StringItem(value, IF ttl > 0 THEN t + ttl ELSE 0)), NoRes)

Set(its, key, value, t) == set(its, key, value, 0, t)

SetWithTTL(its, key, value, ttl, t) == set(its, key, value, ttl, t)

\* Mutant of Update: the type check is missing.
UpdateNoTypeCheck(its, key, value, t) ==
  IF key \notin DOMAIN its THEN Out(its, [NoRes EXCEPT !.err = ErrKeyNotFound])
  ELSE IF isExpired(its[key], t)
    THEN Out(Delete(its, key), [NoRes EXCEPT !.err = ErrKeyNotFound])
  ELSE Out(Store(its, key, [its[key] EXCEPT !.value = [str |-> value]]), NoRes)

\* Mutant of Update: the item is replaced by a fresh one without expiration.
UpdateResetsExpiry(its, key, value, t) ==
  IF key \notin DOMAIN its THEN Out(its, [NoRes EXCEPT !.err = ErrKeyNotFound])
  ELSE IF isExpired(its[key], t)
    THEN Out(Delete(its, key), [NoRes EXCEPT !.err = ErrKeyNotFound])
  ELSE IF its[key].dataType # StringType
    THEN Out(its, [NoRes EXCEPT !.err = ErrTypeMismatch])
  ELSE Out(Store(its, key, StringItem(value, 0)), NoRes)

\* Mutant of Update: an absent key is created.
UpdateUpserts(its, key, value, t) ==
  IF key \notin DOMAIN its THEN Out(Store(its, key, StringItem(value, 0)), NoRes)
  ELSE IF isExpired(its[key], t)
    THEN Out(Delete(its, key), [NoRes EXCEPT !.err = ErrKeyNotFound])
  ELSE IF its[key].dataType # StringType
    THEN Out(its, [NoRes EXCEPT !.err = ErrTypeMismatch])
  ELSE Out(Store(its, key, [its[key] EXCEPT !.value = [str |-> value]]), NoRes)

\* Mutant of Update: a list under the key is dropped before the error
\* is returned.
UpdateClobbers(its, key, value, t) ==
  IF key \notin DOMAIN its THEN Out(its, [NoRes EXCEPT !.err = ErrKeyNotFound])
  ELSE IF isExpired(its[key], t)
    THEN Out(Delete(its, key), [NoRes EXCEPT !.err = ErrKeyNotFound])
  ELSE IF its[key].dataType # StringType
    THEN Out(Delete(its, key), [NoRes EXCEPT !.err = ErrTypeMismatch])
  ELSE Out(Store(its, key, [its[key] EXCEPT !.value = [str |-> value]]), NoRes)

Update(its, key, value, t) ==
  IF key \notin DOMAIN its THEN Out(its, [NoRes EXCEPT !.err = ErrKeyNotFound])
  ELSE IF isExpired(its[key], t)
    THEN Out(Delete(its, key), [NoRes EXCEPT !.err = ErrKeyNotFound])
  ELSE IF its[key].dataType # StringType
    THEN Out(its, [NoRes EXCEPT !.err = ErrTypeMismatch])
  ELSE Out(Store(its, key, [its[key] EXCEPT !.value = [str |-> value]]), NoRes)

\* Mutant of Remove: only an entry without expiration is deleted.
RemoveSkipsExpiring(its, key) ==
  IF key \notin DOMAIN its \/ its[key].expireAt # 0
    THEN Out(its, [NoRes EXCEPT !.err = ErrKeyNotFound])
  ELSE Out(Delete(its, key), NoRes)

Remove(its, key) ==
  IF key \notin DOMAIN its THEN Out(its, [NoRes EXCEPT !.err = ErrKeyNotFound])
  ELSE Out(Delete(its, key), NoRes)

\* --------------------------------------------------- list operations
\* l.PushFront(value) / l.PushBack(value) of container/list
\* Mutant of ListPushFront: the value is linked in at the back.
ListPushFrontAppends(l, value) == Append(l, value)

ListPushFront(l, value) == <<value>> \o l
ListPushBack(l, value) == Append(l, value)

\* Mutant of PushFront: a scalar is silently replaced by a new list.
PushFrontCoerces(its, key, value, t) ==
  IF key \notin DOMAIN its \/ isExpired(its[key], t) \/ its[key].dataType # ListType
    THEN Out(Store(its, key, ListItem(<<value>>, 0)), NoRes)
  ELSE Out(Store(its, key, [its[key] EXCEPT
             !.value = [lst |-> ListPushFront(its[key].value.lst, value)]]), NoRes)

\* Mutant of PushFront: an expired list is reused instead of recreated.
PushFrontReusesExpired(its, key, value, t) ==
  IF key \notin DOMAIN its THEN Out(Store(its, key, ListItem(<<value>>, 0)), NoRes)
  ELSE IF its[key].dataType # ListType
    THEN (IF isExpired(its[key], t)
            THEN Out(Store(its, key, ListItem(<<value>>, 0)), NoRes)
            ELSE Out(its, [NoRes EXCEPT !.err = ErrTypeMismatch]))
  ELSE Out(Store(its, key, [its[key] EXCEPT
             !.value = [lst |-> ListPushFront(its[key].value.lst, value)],
             !.expireAt = IF isExpired(its[key], t) THEN 0 ELSE @]), NoRes)

PushFront(its, key, value, t) ==
  IF key \notin DOMAIN its THEN Out(Store(its, key, ListItem(<<value>>, 0)), NoRes)
  ELSE IF isExpired(its[key], t)
    THEN Out(Store(Delete(its, key), key, ListItem(<<value>>, 0)), NoRes)
  ELSE IF its[key].dataType # ListType
    THEN Out(its, [NoRes EXCEPT !.err = ErrTypeMismatch])
  ELSE Out(Store(its, key, [its[key] EXCEPT
             !.value = [lst |-> ListPushFront(its[key].value.lst, value)]]), NoRes)

\* Mutant of PushBack: a scalar is silently replaced by a new list.
PushBackCoerces(its, key, value, t) ==
  IF key \notin DOMAIN its \/ isExpired(its[key], t) \/ its[key].dataType # ListType
    THEN Out(Store(its, key, ListItem(<<value>>, 0)), NoRes)
  ELSE Out(Store(its, key, [its[key] EXCEPT
             !.value = [lst |-> ListPushBack(its[key].value.lst, value)]]), NoRes)

PushBack(its, key, value, t) ==
  IF key \notin DOMAIN its THEN Out(Store(its, key, ListItem(<<value>>, 0)), NoRes)
  ELSE IF isExpired(its[key], t)
    THEN Out(Store(Delete(its, key), key, ListItem(<<value>>, 0)), NoRes)
  ELSE IF its[key].dataType # ListType
    THEN Out(its, [NoRes EXCEPT !.err = ErrTypeMismatch])
  ELSE Out(Store(its, key, [its[key] EXCEPT
             !.value = [lst |-> ListPushBack(its[key].value.lst, value)]]), NoRes)

\* Mutant of PopFront: a key of the wrong kind is dropped.
PopFrontDropsScalar(its, key, t) ==
  IF key \notin DOMAIN its THEN Out(its, NoRes)
  ELSE IF isExpired(its[key], t) THEN Out(Delete(its, key), NoRes)
  ELSE IF its[key].dataType # ListType THEN Out(Delete(its, key), NoRes)
  ELSE IF Len(its[key].value.lst) = 0 THEN Out(its, NoRes)
  ELSE Out(Store(its, key, [its[key] EXCEPT !.value = [lst |-> Tail(its[key].value.lst)]]),
           [NoRes EXCEPT !.ok = TRUE, !.val = Head(its[key].value.lst)])

PopFront(its, key, t) ==
  IF key \notin DOMAIN its THEN Out(its, NoRes)
  ELSE IF isExpired(its[key], t) THEN Out(Delete(its, key), NoRes)
  ELSE IF its[key].dataType # ListType THEN Out(its, NoRes)
  ELSE IF Len(its[key].value.lst) = 0 THEN Out(its, NoRes)
  ELSE Out(Store(its, key, [its[key] EXCEPT !.value = [lst |-> Tail(its[key].value.lst)]]),
           [NoRes EXCEPT !.ok = TRUE, !.val = Head(its[key].value.lst)])

\* Mutant of PopBack: the list loses its expiration with the element.
PopBackClearsExpiry(its, key, t) ==
  IF key \notin DOMAIN its THEN Out(its, NoRes)
  ELSE IF isExpired(its[key], t) THEN Out(Delete(its, key), NoRes)
  ELSE IF its[key].dataType # ListType THEN Out(its, NoRes)
  ELSE IF Len(its[key].value.lst) = 0 THEN Out(its, NoRes)
  ELSE LET l == its[key].value.lst IN
       Out(Store(its, key, ListItem(SubSeq(l, 1, Len(l) - 1), 0)),
           [NoRes EXCEPT !.ok = TRUE, !.val = l[Len(l)]])

PopBack(its, key, t) ==
  IF key \notin DOMAIN its THEN Out(its, NoRes)
  ELSE IF isExpired(its[key], t) THEN Out(Delete(its, key), NoRes)
  ELSE IF its[key].dataType # ListType THEN Out(its, NoRes)
  ELSE IF Len(its[key].value.lst) = 0 THEN Out(its, NoRes)
  ELSE LET l == its[key].value.lst IN
       Out(Store(its, key, [its[key] EXCEPT !.value = [lst |-> SubSeq(l, 1, Len(l) - 1)]]),
           [NoRes EXCEPT !.ok = TRUE, !.val = l[Len(l)]])

\* the index arithmetic of ListRange on a list l (0-based start and end)
\* Mutant of RangeOf: the end index is taken as exclusive.
RangeOfExclusiveEnd(l, start, end) ==
  LET length == Len(l)
      s1 == IF start < 0 THEN length + start ELSE start
      e1 == IF end < 0 THEN length + end ELSE end
      s2 == IF s1 < 0 THEN 0 ELSE s1
      e2 == IF e1 >= length THEN length - 1 ELSE e1
  IN IF s2 > e2 \/ s2 >= length THEN <<>>
     ELSE [i \in 1..(e2 - s2) |-> l[s2 + i]]

RangeOf(l, start, end) ==
  LET length == Len(l)
      s1 == IF start < 0 THEN length + start ELSE start
      e1 == IF end < 0 THEN length + end ELSE end
      s2 == IF s1 < 0 THEN 0 ELSE s1
      e2 == IF e1 >= length THEN length - 1 ELSE e1
  IN IF s2 > e2 \/ s2 >= length THEN <<>>
     ELSE [i \in 1..(e2 - s2 + 1) |-> l[s2 + i]]

\* Mutant of ListRange: the kind is checked before the expiration.
ListRangeTypeFirst(its, key, start, end, t) ==
  IF key \notin DOMAIN its THEN Out(its, [NoRes EXCEPT !.err = ErrKeyNotFound])
  ELSE IF its[key].dataType # ListType
    THEN Out(its, [NoRes EXCEPT !.err = ErrTypeMismatch])
  ELSE IF isExpired(its[key], t) THEN OutEvict(its, [NoRes EXCEPT !.err = ErrKeyNotFound])
  ELSE Out(its, [NoRes EXCEPT !.list = RangeOf(its[key].value.lst, start, end)])

ListRange(its, key, start, end, t) ==
  IF key \notin DOMAIN its THEN Out(its, [NoRes EXCEPT !.err = ErrKeyNotFound])
  ELSE IF isExpired(its[key], t) THEN OutEvict(its, [NoRes EXCEPT !.err = ErrKeyNotFound])
  ELSE IF its[key].dataType # ListType
    THEN Out(its, [NoRes EXCEPT !.err = ErrTypeMismatch])
  ELSE Out(its, [NoRes EXCEPT !.list = RangeOf(its[key].value.lst, start, end)])

\* ---------------------------------------------------- TTL operations
\* Mutant of SetTTL: an expiration already set is not replaced.
SetTTLKeepsEarlier(its, key, ttl, t, t2) ==
  IF key \notin DOMAIN its THEN Out(its, [NoRes EXCEPT !.err = ErrKeyNotFound])
  ELSE IF isExpired(its[key], t)
    THEN Out(Delete(its, key), [NoRes EXCEPT !.err = ErrKeyNotFound])
  ELSE IF ttl > 0 /\ its[key].expireAt # 0 THEN Out(its, NoRes)
  ELSE Out(Store(its, key, [its[key] EXCEPT !.expireAt = IF ttl <= 0 THEN 0 ELSE t2 + ttl]),
           NoRes)

\* SetTTL reads the clock twice: t in isExpired, t2 in time.Now().Add(ttl).
SetTTL(its, key, ttl, t, t2) ==
  IF key \notin DOMAIN its THEN Out(its, [NoRes EXCEPT !.err = ErrKeyNotFound])
  ELSE IF isExpired(its[key], t)
    THEN Out(Delete(its, key), [NoRes EXCEPT !.err = ErrKeyNotFound])
  ELSE Out(Store(its, key, [its[key] EXCEPT !.expireAt = IF ttl <= 0 THEN 0 ELSE t2 + ttl]),
           NoRes)

\* Mutant of GetTTL: a key without expiration reports a zero duration.
GetTTLNoSentinel(its, key, t, t2) ==
  IF key \notin DOMAIN its THEN Out(its, NoRes)
  ELSE IF isExpired(its[key], t) THEN OutEvict(its, NoRes)
  ELSE IF its[key].expireAt = 0 THEN Out(its, [NoRes EXCEPT !.ttl = 0, !.ok = TRUE])
  ELSE IF its[key].expireAt - t2 < 0 THEN Out(its, NoRes)
  ELSE Out(its, [NoRes EXCEPT !.ttl = its[key].expireAt - t2, !.ok = TRUE])

\* Mutant of GetTTL: the remaining duration is returned without the
\* check of its sign.
GetTTLNoRecheck(its, key, t, t2) ==
  IF key \notin DOMAIN its THEN Out(its, NoRes)
  ELSE IF isExpired(its[key], t) THEN OutEvict(its, NoRes)
  ELSE IF its[key].expireAt = 0 THEN Out(its, [NoRes EXCEPT !.ttl = -1, !.ok = TRUE])
  ELSE Out(its, [NoRes EXCEPT !.ttl = its[key].expireAt - t2, !.ok = TRUE])

\* GetTTL reads the clock twice: t in isExpired, t2 in time.Until(expireAt).
GetTTL(its, key, t, t2) ==
  IF key \notin DOMAIN its THEN Out(its, NoRes)
  ELSE IF isExpired(its[key], t) THEN OutEvict(its, NoRes)
  ELSE IF its[key].expireAt = 0 THEN Out(its, [NoRes EXCEPT !.ttl = -1, !.ok = TRUE])
  ELSE IF its[key].expireAt - t2 < 0 THEN Out(its, NoRes)
  ELSE Out(its, [NoRes EXCEPT !.ttl = its[key].expireAt - t2, !.ok = TRUE])

\* Mutant of RemoveTTL: the expiration is cleared on an expired entry too.
RemoveTTLRevives(its, key, t) ==
  IF key \notin DOMAIN its THEN Out(its, [NoRes EXCEPT !.err = ErrKeyNotFound])
  ELSE Out(Store(its, key, [its[key] EXCEPT !.expireAt = 0]), NoRes)

RemoveTTL(its, key, t) ==
  IF key \notin DOMAIN its THEN Out(its, [NoRes EXCEPT !.err = ErrKeyNotFound])
  ELSE IF isExpired(its[key], t)
    THEN Out(Delete(its, key), [NoRes EXCEPT !.err = ErrKeyNotFound])
  ELSE Out(Store(its, key, [its[key] EXCEPT !.expireAt = 0]), NoRes)

\* Handler.GetTTL: the response to GET /api/v1/ttl/{key}, from what
\* Cache.GetTTL returned; one tick of the clock is one second
HandlerGetTTL(ttl, found) ==
  IF ~found THEN [status |-> 404, err |-> ErrKeyNotFound, ttl |-> 0]
  ELSE [status |-> 200, err |-> ErrNil, ttl |-> IF ttl < 0 THEN -1 ELSE ttl]

\* ------------------------------------------------------- the handlers
\* what a handler writes: the HTTP status and the error of the body
WriteError(status, err) == [status |-> status, err |-> err]
WriteSuccess(status) == [status |-> status, err |-> ErrNil]

\* Mutant of HandleError: a type mismatch is answered as a missing key.
HandleErrorNotFoundOnly(err) ==
  IF err \in {ErrKeyNotFound, ErrTypeMismatch} THEN WriteError(404, ErrKeyNotFound)
  ELSE WriteError(500, err)

\* Handler.HandleError, for err # nil
HandleError(err) ==
  CASE err = ErrKeyNotFound -> WriteError(404, err)
    [] err = ErrTypeMismatch -> WriteError(400, err)
    [] OTHER -> WriteError(500, err)

\* the handlers, each from the result res of its call of the cache
HandlerGetString(res) ==
  IF ~res.ok THEN HandleError(ErrKeyNotFound) ELSE WriteSuccess(200)

HandlerSetString(res) ==
  IF res.err # ErrNil THEN HandleError(res.err) ELSE WriteSuccess(201)

HandlerUpdateString(res) ==
  IF res.err # ErrNil THEN HandleError(res.err) ELSE WriteSuccess(200)

HandlerRemove(res) ==
  IF res.err # ErrNil THEN HandleError(res.err) ELSE WriteSuccess(200)

HandlerExists(res) == WriteSuccess(200)

HandlerType(res) ==
  IF ~res.ok THEN WriteError(404, ErrKeyNotFound) ELSE WriteSuccess(200)

HandlerClear(res) ==
  IF res.err # ErrNil THEN WriteError(500, res.err) ELSE WriteSuccess(200)

HandlerPush(res) ==
  IF res.err # ErrNil THEN HandleError(res.err) ELSE WriteSuccess(201)

HandlerPop(res) ==
  IF ~res.ok THEN WriteError(404, ErrKeyNotFound) ELSE WriteSuccess(200)

HandlerListRange(res) ==
  IF res.err # ErrNil THEN HandleError(res.err) ELSE WriteSuccess(200)

HandlerSetTTL(res) ==
  IF res.err # ErrNil THEN HandleError(res.err) ELSE WriteSuccess(200)

HandlerRemoveTTL(res) ==
  IF res.err # ErrNil THEN HandleError(res.err) ELSE WriteSuccess(200)

\* ------------------------------------------------ general operations
\* Mutant of Exists: an expired entry is reported absent but left in the
\* map.
ExistsLeavesExpired(its, key, t) ==
  IF key \notin DOMAIN its THEN Out(its, NoRes)
  ELSE IF isExpired(its[key], t) THEN Out(its, NoRes)
  ELSE Out(its, [NoRes EXCEPT !.ok = TRUE])

Exists(its, key, t) ==
  IF key \notin DOMAIN its THEN Out(its, NoRes)
  ELSE IF isExpired(its[key], t) THEN OutEvict(its, NoRes)
  ELSE Out(its, [NoRes EXCEPT !.ok = TRUE])

Type(its, key, t) ==
  IF key \notin DOMAIN its THEN Out(its, NoRes)
  ELSE IF isExpired(its[key], t) THEN OutEvict(its, NoRes)
  ELSE Out(its, [NoRes EXCEPT !.ok = TRUE, !.dt = its[key].dataType])

\* c.items = make(map[string]*cacheItem)
\* Mutant of Clear: one entry survives.
ClearLeavesOne(its) ==
  IF DOMAIN its = {} THEN Out(its, NoRes)
  ELSE LET k == CHOOSE k \in DOMAIN its : TRUE
       IN Out([j \in {k} |-> its[j]], NoRes)

Clear(its) == Out(<<>>, NoRes)

\* cleanup: one sweep at time t
\* Mutant of cleanup: an entry is swept at the instant of its expiration.
cleanupInclusive(its, t) ==
  LET keep == {k \in DOMAIN its : ~(its[k].expireAt # 0 /\ t >= its[k].expireAt)}
  IN [k \in keep |-> its[k]]

\* Mutant of cleanup: the sweep deletes nothing.
cleanupKeepsAll(its, t) == its

cleanup(its, t) ==
  LET keep == {k \in DOMAIN its : ~(its[k].expireAt # 0 /\ t > its[k].expireAt)}
  IN [k \in keep |-> its[k]]

\* ================================================================ state
VARIABLES
  callers,          \* the goroutines that call the cache (fixed at Init)
  keys,             \* the keys those callers use (fixed at Init)
  items,            \* c.items: map from key to cacheItem
  now,              \* the clock, time.Now()
  mu,               \* c.mu: [writer, readers] of the sync.RWMutex
  pc,               \* where each caller is inside its current call
  cur,              \* the reading call that is evicting, per caller: its
                    \* name, its key and the result it is going to return
  cleanupInterval,  \* c.cleanupInterval
  reaper,           \* where the cleanup goroutine is
  last              \* the call decided by the latest step: arguments, the map
                    \* and clock it read, and the result it reports

vars == <<callers, keys, items, now, mu, pc, cur, cleanupInterval, reaper, last>>

NoWriter == "none"
Reaper == "reaper"
NoKey == ""
NoCall == [op |-> "none", key |-> NoKey, res |-> NoRes]
NoLast == [op |-> "none"]

\* a later reading of the clock inside one call
ClockReads(t) == {t2 \in Times : t2 = t \/ t2 = t + 1}

Call(op, p, key, value, ttl, start, end, t2, res) ==
  [op |-> op, proc |-> p, key |-> key, value |-> value, ttl |-> ttl,
   start |-> start, end |-> end, pre |-> items, t |-> now, t2 |-> t2, res |-> res]

\* NewMemoryCache: empty map; the cleanup goroutine runs iff the interval
\* is positive.
NewMemoryCache(interval) ==
  /\ items = <<>>
  /\ cleanupInterval = interval
  /\ reaper = IF interval > 0 THEN "select" ELSE "off"
  /\ mu = [writer |-> NoWriter, readers |-> {}]

Init ==
  /\ callers = Procs
  /\ keys = {"k1"}
  /\ \E interval \in {0, 1} : NewMemoryCache(interval)
  /\ now = 1
  /\ pc = [p \in Procs |-> "idle"]
  /\ cur = [p \in Procs |-> NoCall]
  /\ last = NoLast

\* ------------------------------------------------------------ the clock
Tick ==
  /\ now < MaxTime
  /\ now' = now + 1
  /\ last' = NoLast
  /\ UNCHANGED <<callers, keys, items, mu, pc, cur, cleanupInterval, reaper>>

\* ------------------------------------------------------------- the lock
LockFree == mu.writer = NoWriter /\ mu.readers = {}

\* c.mu.Lock() at the head of a writing call
Lock(p) ==
  /\ pc[p] = "idle"
  /\ LockFree
  /\ mu' = [mu EXCEPT !.writer = p]
  /\ pc' = [pc EXCEPT ![p] = "locked"]
  /\ last' = NoLast
  /\ UNCHANGED <<callers, keys, items, now, cur, cleanupInterval, reaper>>

\* c.mu.RLock() at the head of a reading call
RLock(p) ==
  /\ pc[p] = "idle"
  /\ mu.writer = NoWriter
  /\ mu' = [mu EXCEPT !.readers = @ \cup {p}]
  /\ pc' = [pc EXCEPT ![p] = "rlocked"]
  /\ last' = NoLast
  /\ UNCHANGED <<callers, keys, items, now, cur, cleanupInterval, reaper>>

\* the body of a writing call and its deferred c.mu.Unlock()
Write(p, out, call) ==
  /\ pc[p] = "locked"
  /\ items' = out.items
  /\ mu' = [mu EXCEPT !.writer = NoWriter]
  /\ pc' = [pc EXCEPT ![p] = "idle"]
  /\ last' = call
  /\ UNCHANGED <<callers, keys, cur, cleanupInterval, reaper>>

\* Mutant of Read: the read lock is kept while the expired item is
\* evicted.
ReadKeepsLock(p, op, key, out, call) ==
  /\ pc[p] = "rlocked"
  /\ mu' = IF out.evict THEN mu ELSE [mu EXCEPT !.readers = @ \ {p}]
  /\ pc' = [pc EXCEPT ![p] = IF out.evict THEN "evict" ELSE "idle"]
  /\ cur' = [cur EXCEPT ![p] = IF out.evict
                                   THEN [op |-> op, key |-> key, res |-> out.res]
                                   ELSE NoCall]
  /\ last' = call
  /\ UNCHANGED <<callers, keys, items, cleanupInterval, reaper>>

\* the body of a reading call: it returns with the deferred c.mu.RUnlock(),
\* or, having found an expired item, gives up the read lock to evict it
Read(p, op, key, out, call) ==
  /\ pc[p] = "rlocked"
  /\ mu' = [mu EXCEPT !.readers = @ \ {p}]
  /\ pc' = [pc EXCEPT ![p] = IF out.evict THEN "evict" ELSE "idle"]
  /\ cur' = [cur EXCEPT ![p] = IF out.evict
                                   THEN [op |-> op, key |-> key, res |-> out.res]
                                   ELSE NoCall]
  /\ last' = call
  /\ UNCHANGED <<callers, keys, items, cleanupInterval, reaper>>

\* --------------------------------------------------- the writing calls
\* a push fits the bound on list length
Fits(key) ==
  key \in DOMAIN items /\ ~isExpired(items[key], now) /\ items[key].dataType = ListType
    => Len(items[key].value.lst) < MaxLen

SetStep(p, key, value) ==
  LET out == Set(items, key, value, now) IN
  /\ Write(p, out, Call("Set", p, key, value, 0, 0, 0, now, out.res))
  /\ UNCHANGED now

SetWithTTLStep(p, key, value, ttl) ==
  LET out == SetWithTTL(items, key, value, ttl, now) IN
  /\ Write(p, out, Call("SetWithTTL", p, key, value, ttl, 0, 0, now, out.res))
  /\ UNCHANGED now

UpdateStep(p, key, value) ==
  LET out == Update(items, key, value, now) IN
  /\ Write(p, out, Call("Update", p, key, value, 0, 0, 0, now, out.res))
  /\ UNCHANGED now

RemoveStep(p, key) ==
  LET out == Remove(items, key) IN
  /\ Write(p, out, Call("Remove", p, key, "", 0, 0, 0, now, out.res))
  /\ UNCHANGED now

PushFrontStep(p, key, value) ==
  LET out == PushFront(items, key, value, now) IN
  /\ Fits(key)
  /\ Write(p, out, Call("PushFront", p, key, value, 0, 0, 0, now, out.res))
  /\ UNCHANGED now

PushBackStep(p, key, value) ==
  LET out == PushBack(items, key, value, now) IN
  /\ Fits(key)
  /\ Write(p, out, Call("PushBack", p, key, value, 0, 0, 0, now, out.res))
  /\ UNCHANGED now

PopFrontStep(p, key) ==
  LET out == PopFront(items, key, now) IN
  /\ Write(p, out, Call("PopFront", p, key, "", 0, 0, 0, now, out.res))
  /\ UNCHANGED now

PopBackStep(p, key) ==
  LET out == PopBack(items, key, now) IN
  /\ Write(p, out, Call("PopBack", p, key, "", 0, 0, 0, now, out.res))
  /\ UNCHANGED now

SetTTLStep(p, key, ttl, t2) ==
  LET out == SetTTL(items, key, ttl, now, t2) IN
  /\ Write(p, out, Call("SetTTL", p, key, "", ttl, 0, 0, t2, out.res))
  /\ now' = t2

RemoveTTLStep(p, key) ==
  LET out == RemoveTTL(items, key, now) IN
  /\ Write(p, out, Call("RemoveTTL", p, key, "", 0, 0, 0, now, out.res))
  /\ UNCHANGED now

ClearStep(p) ==
  LET out == Clear(items) IN
  /\ Write(p, out, Call("Clear", p, NoKey, "", 0, 0, 0, now, out.res))
  /\ UNCHANGED now

\* --------------------------------------------------- the reading calls
GetStep(p, key) ==
  LET out == Get(items, key, now) IN
  /\ Read(p, "Get", key, out, Call("Get", p, key, "", 0, 0, 0, now, out.res))
  /\ UNCHANGED now

ListRangeStep(p, key, start, end) ==
  LET out == ListRange(items, key, start, end, now) IN
  /\ Read(p, "ListRange", key, out, Call("ListRange", p, key, "", 0, start, end, now, out.res))
  /\ UNCHANGED now

GetTTLStep(p, key, t2) ==
  LET out == GetTTL(items, key, now, t2) IN
  /\ Read(p, "GetTTL", key, out, Call("GetTTL", p, key, "", 0, 0, 0, t2, out.res))
  /\ now' = t2

ExistsStep(p, key) ==
  LET out == Exists(items, key, now) IN
  /\ Read(p, "Exists", key, out, Call("Exists", p, key, "", 0, 0, 0, now, out.res))
  /\ UNCHANGED now

TypeStep(p, key) ==
  LET out == Type(items, key, now) IN
  /\ Read(p, "Type", key, out, Call("Type", p, key, "", 0, 0, 0, now, out.res))
  /\ UNCHANGED now

\* ------------------------------------ lazy eviction inside a reading call
\* c.mu.RUnlock() was done by the read step; c.mu.Lock()
\* Mutant of EvictLock: the eviction does not wait for the other holders
\* of the lock.
EvictLockNoWait(p) ==
  /\ pc[p] = "evict"
  /\ mu' = [mu EXCEPT !.writer = p]
  /\ pc' = [pc EXCEPT ![p] = "evictLocked"]
  /\ last' = NoLast
  /\ UNCHANGED <<callers, keys, items, now, cur, cleanupInterval, reaper>>

EvictLock(p) ==
  /\ pc[p] = "evict"
  /\ LockFree
  /\ mu' = [mu EXCEPT !.writer = p]
  /\ pc' = [pc EXCEPT ![p] = "evictLocked"]
  /\ last' = NoLast
  /\ UNCHANGED <<callers, keys, items, now, cur, cleanupInterval, reaper>>

\* delete(c.items, key); c.mu.Unlock()
\* Mutant of EvictDelete: the eviction deletes every expired item it
\* finds in the map.
EvictDeleteSweeps(p) ==
  /\ pc[p] = "evictLocked"
  /\ items' = cleanup(Delete(items, cur[p].key), now)
  /\ mu' = [mu EXCEPT !.writer = NoWriter]
  /\ pc' = [pc EXCEPT ![p] = "relock"]
  /\ last' = [op |-> "evict", proc |-> p, call |-> cur[p], key |-> cur[p].key,
               pre |-> items, t |-> now]
  /\ UNCHANGED <<callers, keys, now, cur, cleanupInterval, reaper>>

EvictDelete(p) ==
  /\ pc[p] = "evictLocked"
  /\ items' = Delete(items, cur[p].key)
  /\ mu' = [mu EXCEPT !.writer = NoWriter]
  /\ pc' = [pc EXCEPT ![p] = "relock"]
  /\ last' = [op |-> "evict", proc |-> p, call |-> cur[p], key |-> cur[p].key,
               pre |-> items, t |-> now]
  /\ UNCHANGED <<callers, keys, now, cur, cleanupInterval, reaper>>

\* c.mu.RLock() before the return
EvictRLock(p) ==
  /\ pc[p] = "relock"
  /\ mu.writer = NoWriter
  /\ mu' = [mu EXCEPT !.readers = @ \cup {p}]
  /\ pc' = [pc EXCEPT ![p] = "return"]
  /\ last' = NoLast
  /\ UNCHANGED <<callers, keys, items, now, cur, cleanupInterval, reaper>>

\* return and the deferred c.mu.RUnlock()
EvictReturn(p) ==
  /\ pc[p] = "return"
  /\ mu' = [mu EXCEPT !.readers = @ \ {p}]
  /\ pc' = [pc EXCEPT ![p] = "idle"]
  /\ cur' = [cur EXCEPT ![p] = NoCall]
  /\ last' = NoLast
  /\ UNCHANGED <<callers, keys, items, now, cleanupInterval, reaper>>

\* ------------------------------------------------ the cleanup goroutine
\* case <-ticker.C: c.cleanup() takes c.mu.Lock()
\* Mutant of ReaperLock: the loop goes on sweeping after it was stopped.
ReaperLockIgnoresStop ==
  /\ reaper \in {"select", "stopped"}
  /\ LockFree
  /\ mu' = [mu EXCEPT !.writer = Reaper]
  /\ reaper' = "cleanup"
  /\ last' = NoLast
  /\ UNCHANGED <<callers, keys, items, now, pc, cur, cleanupInterval>>

ReaperLock ==
  /\ reaper = "select"
  /\ LockFree
  /\ mu' = [mu EXCEPT !.writer = Reaper]
  /\ reaper' = "cleanup"
  /\ last' = NoLast
  /\ UNCHANGED <<callers, keys, items, now, pc, cur, cleanupInterval>>

\* the sweep of cleanup and its deferred c.mu.Unlock()
ReaperCleanup ==
  /\ reaper = "cleanup"
  /\ items' = cleanup(items, now)
  /\ mu' = [mu EXCEPT !.writer = NoWriter]
  /\ reaper' = "select"
  /\ last' = [op |-> "cleanup", proc |-> Reaper, pre |-> items, t |-> now]
  /\ UNCHANGED <<callers, keys, now, pc, cur, cleanupInterval>>

\* Stop: with a positive interval the caller blocks sending on the
\* unbuffered stopCleanup channel; otherwise it returns at once.
\* Mutant of Stop: the signal is sent whatever the interval.
StopAlwaysSends(p) ==
  /\ pc[p] = "idle"
  /\ pc' = [pc EXCEPT ![p] = "stopping"]
  /\ last' = [op |-> "Stop", proc |-> p]
  /\ UNCHANGED <<callers, keys, items, now, mu, cur, cleanupInterval, reaper>>

Stop(p) ==
  /\ pc[p] = "idle"
  /\ pc' = [pc EXCEPT ![p] = IF cleanupInterval > 0 THEN "stopping" ELSE "idle"]
  /\ last' = [op |-> "Stop", proc |-> p]
  /\ UNCHANGED <<callers, keys, items, now, mu, cur, cleanupInterval, reaper>>

\* case <-c.stopCleanup: the goroutine receives from a blocked Stop and
\* returns; the sender is released.
\* Mutant of StopReceive: every blocked Stop is released, as by a closed
\* channel.
StopReceiveReleasesAll(p) ==
  /\ reaper = "select"
  /\ pc[p] = "stopping"
  /\ reaper' = "stopped"
  /\ pc' = [q \in Procs |-> IF pc[q] = "stopping" THEN "idle" ELSE pc[q]]
  /\ last' = [op |-> "stopped", proc |-> p]
  /\ UNCHANGED <<callers, keys, items, now, mu, cur, cleanupInterval>>

StopReceive(p) ==
  /\ reaper = "select"
  /\ pc[p] = "stopping"
  /\ reaper' = "stopped"
  /\ pc' = [pc EXCEPT ![p] = "idle"]
  /\ last' = [op |-> "stopped", proc |-> p]
  /\ UNCHANGED <<callers, keys, items, now, mu, cur, cleanupInterval>>

\* ================================================================= next
\* each call, made by any caller with any arguments
AnyLock == \E p \in callers : Lock(p)
AnyRLock == \E p \in callers : RLock(p)
AnyEvictLock == \E p \in callers : EvictLock(p)
AnyEvictDelete == \E p \in callers : EvictDelete(p)
AnyEvictRLock == \E p \in callers : EvictRLock(p)
AnyEvictReturn == \E p \in callers : EvictReturn(p)
AnyStop == \E p \in callers : Stop(p)
AnyStopReceive == \E p \in callers : StopReceive(p)
CallClear == \E p \in callers : ClearStep(p)
CallSet == \E p \in callers, key \in keys, value \in Values : SetStep(p, key, value)
CallSetWithTTL == \E p \in callers, key \in keys, value \in Values, ttl \in TTLs : SetWithTTLStep(p, key, value, ttl)
CallUpdate == \E p \in callers, key \in keys, value \in Values : UpdateStep(p, key, value)
CallRemove == \E p \in callers, key \in keys : RemoveStep(p, key)
CallPushFront == \E p \in callers, key \in keys, value \in Values : PushFrontStep(p, key, value)
CallPushBack == \E p \in callers, key \in keys, value \in Values : PushBackStep(p, key, value)
CallPopFront == \E p \in callers, key \in keys : PopFrontStep(p, key)
CallPopBack == \E p \in callers, key \in keys : PopBackStep(p, key)
CallListRange == \E p \in callers, key \in keys, start \in Indexes, end \in Indexes : ListRangeStep(p, key, start, end)
CallSetTTL == \E p \in callers, key \in keys, ttl \in TTLs, t2 \in ClockReads(now) : SetTTLStep(p, key, ttl, t2)
CallGetTTL == \E p \in callers, key \in keys, t2 \in ClockReads(now) : GetTTLStep(p, key, t2)
CallRemoveTTL == \E p \in callers, key \in keys : RemoveTTLStep(p, key)
CallGet == \E p \in callers, key \in keys : GetStep(p, key)
CallExists == \E p \in callers, key \in keys : ExistsStep(p, key)
CallType == \E p \in callers, key \in keys : TypeStep(p, key)

Next ==
  \/ Tick
  \/ ReaperLock
  \/ ReaperCleanup
  \/ AnyLock
  \/ AnyRLock
  \/ AnyEvictLock
  \/ AnyEvictDelete
  \/ AnyEvictRLock
  \/ AnyEvictReturn
  \/ AnyStop
  \/ AnyStopReceive
  \/ CallClear
  \/ CallSet
  \/ CallSetWithTTL
  \/ CallUpdate
  \/ CallRemove
  \/ CallPushFront
  \/ CallPushBack
  \/ CallPopFront
  \/ CallPopBack
  \/ CallListRange
  \/ CallSetTTL
  \/ CallGetTTL
  \/ CallRemoveTTL
  \/ CallGet
  \/ CallExists
  \/ CallType

Spec == Init /\ [][Next]_vars

\* ------------------------------------------------------------ fairness
\* the body of whatever call p is in, between taking the lock and the
\* deferred unlock
Body(p) ==
  \/ ClearStep(p)
  \/ \E key \in keys :
       \/ RemoveStep(p, key)
       \/ PopFrontStep(p, key)
       \/ PopBackStep(p, key)
       \/ RemoveTTLStep(p, key)
       \/ GetStep(p, key)
       \/ ExistsStep(p, key)
       \/ TypeStep(p, key)
       \/ \E value \in Values :
            \/ SetStep(p, key, value)
            \/ UpdateStep(p, key, value)
            \/ PushFrontStep(p, key, value)
            \/ PushBackStep(p, key, value)
            \/ \E ttl \in TTLs : SetWithTTLStep(p, key, value, ttl)
       \/ \E start \in Indexes, end \in Indexes : ListRangeStep(p, key, start, end)
       \/ \E t2 \in ClockReads(now) :
            \/ GetTTLStep(p, key, t2)
            \/ \E ttl \in TTLs : SetTTLStep(p, key, ttl, t2)

\* A goroutine that holds the lock runs on to its unlock.  sync.RWMutex
\* grants a blocked Lock or RLock once the lock has been released often
\* enough, the ticker keeps firing, and a select with a sender blocked on
\* stopCleanup takes that case sooner or later.
Fairness ==
  /\ WF_vars(ReaperCleanup)
  /\ SF_vars(ReaperLock)
  /\ \A p \in Procs :
       /\ WF_vars(Body(p))
       /\ SF_vars(EvictLock(p))
       /\ WF_vars(EvictDelete(p))
       /\ SF_vars(EvictRLock(p))
       /\ WF_vars(EvictReturn(p))
       /\ SF_vars(StopReceive(p))

\* Two callers and the cleanup goroutine, scheduled fairly, with one
\* call of each shape: a write (SetWithTTL), a read that may evict (Get),
\* Clear and Stop.
LiveInit ==
  /\ callers = Procs
  /\ keys = {"k1"}
  /\ NewMemoryCache(1)
  /\ now = 1
  /\ pc = [p \in Procs |-> "idle"]
  /\ cur = [p \in Procs |-> NoCall]
  /\ last = NoLast

LiveNext ==
  \/ Tick
  \/ ReaperLock
  \/ ReaperCleanup
  \/ AnyLock
  \/ AnyRLock
  \/ AnyEvictLock
  \/ AnyEvictDelete
  \/ AnyEvictRLock
  \/ AnyEvictReturn
  \/ AnyStop
  \/ AnyStopReceive
  \/ CallClear
  \/ CallSetWithTTL
  \/ CallGet

LiveSpec == LiveInit /\ [][LiveNext]_vars /\ Fairness

\* ------------------------------------------- ListRange on its own
\* ListRange applied to every list of up to RangeLen elements with every
\* pair of indexes in and out of range.
RangeLen == 3
RangeValues == {"a", "b", "z"}
RangeLists == UNION {[1..n -> RangeValues] : n \in 0..RangeLen}
WideIndexes == {-100, 100} \cup (-(RangeLen + 2))..(RangeLen + 2)

RangeInit ==
  /\ callers = {"p1"}
  /\ keys = {"k1"}
  /\ \E l \in RangeLists : items = [k \in {"k1"} |-> ListItem(l, 0)]
  /\ cleanupInterval = 0
  /\ reaper = "off"
  /\ mu = [writer |-> NoWriter, readers |-> {}]
  /\ now = 1
  /\ pc = [p \in Procs |-> "idle"]
  /\ cur = [p \in Procs |-> NoCall]
  /\ last = NoLast

CallListRangeWide ==
  \E p \in callers, key \in keys, start \in WideIndexes, end \in WideIndexes :
    ListRangeStep(p, key, start, end)

RangeNext ==
  \/ AnyRLock
  \/ CallListRangeWide

RangeSpec == RangeInit /\ [][RangeNext]_vars

\* ------------------------------------------ a store of several keys
\* Two callers and the cleanup goroutine on a store of two keys: scalar
\* writes with and without TTL, Clear, Exists with its eviction, sweeps.
StoreKeys == {"k1", "k2"}

StoreInit ==
  /\ callers = Procs
  /\ keys = StoreKeys
  /\ NewMemoryCache(1)
  /\ now = 1
  /\ pc = [p \in Procs |-> "idle"]
  /\ cur = [p \in Procs |-> NoCall]
  /\ last = NoLast

StoreNext ==
  \/ Tick
  \/ ReaperLock
  \/ ReaperCleanup
  \/ AnyLock
  \/ AnyRLock
  \/ AnyEvictLock
  \/ AnyEvictDelete
  \/ AnyEvictRLock
  \/ AnyEvictReturn
  \/ CallClear
  \/ CallSet
  \/ CallSetWithTTL
  \/ CallExists

StoreSpec == StoreInit /\ [][StoreNext]_vars

\* ------------------------------------------- the ttl field of a request
\* The handlers of POST string/{key} and PUT ttl/{key} on a store whose
\* clock counts nanoseconds, as time.Duration does.
Second == 1000000000

\* d.Seconds(): the whole seconds and the remaining nanoseconds of d
Seconds(d) == [whole |-> d \div Second, frac |-> d % Second]

RequestTTLs == {0, 1, 2}

\* StringRequest.TTL, TTLRequest.TTL: encoding/json stores the number of
\* the body as the int64 of the time.Duration, a count of nanoseconds
DecodeTTL(n) == n

\* Handler.SetString with the body {"value": value, "ttl": n}
SetStringRequest(p, key, value, n) ==
  LET ttl == DecodeTTL(n)
      out == IF ttl > 0 THEN SetWithTTL(items, key, value, ttl * Second, now)
             ELSE Set(items, key, value, now)
  IN /\ Write(p, out, [op |-> "POST string", proc |-> p, key |-> key, n |-> n,
                       pre |-> items, t |-> now, t2 |-> now, res |-> out.res,
                       response |-> HandlerSetString(out.res)])
     /\ UNCHANGED now

\* Handler.SetTTL with the body {"ttl": n}
SetTTLRequest(p, key, n, t2) ==
  LET ttl == DecodeTTL(n)
      out == SetTTL(items, key, ttl, now, t2)
  IN /\ Write(p, out, [op |-> "PUT ttl", proc |-> p, key |-> key, n |-> n,
                       pre |-> items, t |-> now, t2 |-> t2, res |-> out.res,
                       response |-> HandlerSetTTL(out.res),
                       ttl |-> Seconds(ttl)])
     /\ now' = t2

CallSetStringRequest ==
  \E p \in callers, key \in keys, value \in Values, n \in RequestTTLs :
    SetStringRequest(p, key, value, n)

CallSetTTLRequest ==
  \E p \in callers, key \in keys, n \in RequestTTLs, t2 \in ClockReads(now) :
    SetTTLRequest(p, key, n, t2)

RequestInit ==
  /\ callers = {"p1"}
  /\ keys = {"k1"}
  /\ NewMemoryCache(0)
  /\ now = 1
  /\ pc = [p \in Procs |-> "idle"]
  /\ cur = [p \in Procs |-> NoCall]
  /\ last = NoLast

RequestNext ==
  \/ AnyLock
  \/ CallSetStringRequest
  \/ CallSetTTLRequest

RequestSpec == RequestInit /\ [][RequestNext]_vars

\* ------------------------------------------ a store without a reaper
\* Two callers on a store created with an interval that is not positive.
NoReaperInit ==
  /\ callers = Procs
  /\ keys = {"k1"}
  /\ \E interval \in {-1, 0} : NewMemoryCache(interval)
  /\ now = 1
  /\ pc = [p \in Procs |-> "idle"]
  /\ cur = [p \in Procs |-> NoCall]
  /\ last = NoLast

NoReaperNext ==
  \/ Tick
  \/ AnyLock
  \/ AnyRLock
  \/ AnyEvictLock
  \/ AnyEvictDelete
  \/ AnyEvictRLock
  \/ AnyEvictReturn
  \/ AnyStop
  \/ CallClear
  \/ CallSet
  \/ CallSetWithTTL
  \/ CallUpdate
  \/ CallRemove
  \/ CallPushFront
  \/ CallPopFront
  \/ CallSetTTL
  \/ CallGet
  \/ CallExists

NoReaperSpec == NoReaperInit /\ [][NoReaperNext]_vars

\* --------------------------------------- every call on a store of two keys
\* One caller making every call on a store of two keys, with the clock.
IsolationInit ==
  /\ callers = {"p1"}
  /\ keys = StoreKeys
  /\ NewMemoryCache(0)
  /\ now = 1
  /\ pc = [p \in Procs |-> "idle"]
  /\ cur = [p \in Procs |-> NoCall]
  /\ last = NoLast

IsolationNext ==
  \/ Tick
  \/ AnyLock
  \/ AnyRLock
  \/ AnyEvictLock
  \/ AnyEvictDelete
  \/ AnyEvictRLock
  \/ AnyEvictReturn
  \/ CallClear
  \/ CallSet
  \/ CallSetWithTTL
  \/ CallUpdate
  \/ CallRemove
  \/ CallPushFront
  \/ CallPushBack
  \/ CallPopFront
  \/ CallPopBack
  \/ CallListRange
  \/ CallSetTTL
  \/ CallGetTTL
  \/ CallRemoveTTL
  \/ CallGet
  \/ CallExists
  \/ CallType

IsolationSpec == IsolationInit /\ [][IsolationNext]_vars

\* =============================================================== claims
\* The properties below read `last`: the call decided by the latest step,
\* with the map (pre) and the clock (t, and t2 for a second reading) it
\* saw and the result (res) it reports.  `items` and `now` are the state
\* the call left.

\* an entry whose expiration is set and lies before time t
ExpiredAt(e, t) == e.expireAt # 0 /\ t > e.expireAt

\* the entry the latest call found under its key
Held == last.key \in DOMAIN last.pre
PreItem == last.pre[last.key]

\* the clock from now on, past every expiration the model can store
Ahead == now..(MaxTime + 3)

\* the stores a later call may find when nothing but cleanup sweeps, at
\* times up to t, has touched the map
Swept(its, t) == {its} \cup {cleanup(its, t1) : t1 \in now..t}

Found(v) == [NoRes EXCEPT !.ok = TRUE, !.val = v]

\* a reading call run as one indivisible step at time t (second clock
\* reading t2): its result, and the map with the expired item evicted
AtomicRead(op, its, key, start, end, t, t2) ==
  LET out == CASE op = "Get" -> Get(its, key, t)
               [] op = "ListRange" -> ListRange(its, key, start, end, t)
               [] op = "GetTTL" -> GetTTL(its, key, t, t2)
               [] op = "Exists" -> Exists(its, key, t)
               [] OTHER -> Type(its, key, t)
  IN [items |-> IF out.evict THEN Delete(its, key) ELSE out.items, res |-> out.res]

\* C1: no call reports an expired entry as present.  Whenever the entry
\* under the key is expired at the moment the call reads the clock, Get,
\* Exists, Type, GetTTL, PopFront and PopBack return found/ok = FALSE and
\* ListRange returns KeyNotFound, whether or not the entry is still in the
\* map, under every interleaving of callers, sweeps and clock ticks.
C1_NoExpiredEntryReported ==
  (/\ last.op \in {"Get", "Exists", "Type", "GetTTL", "PopFront", "PopBack", "ListRange"}
   /\ Held
   /\ ExpiredAt(PreItem, last.t2))
  => /\ ~last.res.ok
     /\ last.res.val = ""
     /\ last.res.list = <<>>
     /\ last.op = "ListRange" => last.res.err = ErrKeyNotFound

\* C1 witness: a Get found an expired scalar that no sweep had removed yet
\* and reported it absent.
C1_Witness ==
  /\ last.op = "Get"
  /\ Held
  /\ PreItem.dataType = StringType
  /\ ExpiredAt(PreItem, last.t2)
  /\ ~last.res.ok
  /\ reaper = "select"

\* C2: every call is atomic.  The delete of a lazily evicting read is the
\* step at which that call takes effect; run as one indivisible step on
\* the map it finds there, the call must leave the map the delete leaves
\* and return the result the call returns (for some arguments and clock
\* reading the call may have had).  Every other call is a single step
\* under the lock.
C2_CallsAreAtomic ==
  last.op = "evict" =>
    \E start \in Indexes, end \in Indexes, t2 \in ClockReads(last.t) :
      LET a == AtomicRead(last.call.op, last.pre, last.key, start, end, last.t, t2)
      IN a.items = items /\ a.res = last.call.res

\* C3: lazy eviction re-validates under the exclusive lock: the entry a
\* read path deletes is expired at the moment of the delete, so an entry
\* written under the key since the expiry check is never removed.
C3_EvictionRevalidates ==
  (last.op = "evict" /\ Held) => ExpiredAt(PreItem, last.t)

\* C4: round trip.  Right after Set(k, v), whatever k held before, a
\* Get(k) at any later time returns (v, true) as long as nothing but the
\* clock and cleanup sweeps has touched k.
C4_SetGetRoundTrip ==
  last.op = "Set" =>
    \A t \in Ahead : \A its \in Swept(items, t) :
      Get(its, last.key, t) = Out(its, Found(last.value))

\* C4 witness: Set overwrote a list that carried a TTL.
C4_Witness ==
  /\ last.op = "Set"
  /\ Held
  /\ PreItem.dataType = ListType
  /\ PreItem.expireAt # 0
  /\ Get(items, last.key, now).res = Found(last.value)

\* C5: SetWithTTL(k, v, ttl) with ttl > 0 at time t stores a scalar with
\* expireAt = t + ttl; with no other write to k, Get returns (v, true)
\* and Exists is true at every time up to t + ttl, and Get is not-found
\* and Exists false at every time after, swept or not.
C5_SetWithTTLExpiry ==
  (last.op = "SetWithTTL" /\ last.ttl > 0) =>
    /\ items[last.key] = StringItem(last.value, last.t + last.ttl)
    /\ \A t \in Ahead : \A its \in Swept(items, t) :
         IF t <= last.t + last.ttl
           THEN /\ Get(its, last.key, t).res = Found(last.value)
                /\ Exists(its, last.key, t).res.ok
           ELSE /\ Get(its, last.key, t).res = NoRes
                /\ ~Exists(its, last.key, t).res.ok

\* C5 witness: SetWithTTL with a positive ttl was called after the clock
\* had advanced, on a key that held an entry.
C5_Witness ==
  /\ last.op = "SetWithTTL"
  /\ last.ttl > 0
  /\ last.t > 1
  /\ Held
  /\ items[last.key].expireAt = last.t + last.ttl

\* C6: Set always succeeds and replaces whatever the key held: afterwards
\* the key is a scalar with payload v and no expiration, also when it
\* held a list or an entry with a pending or elapsed TTL.
C6_SetReplaces ==
  last.op = "Set" =>
    /\ last.res.err = ErrNil
    /\ items = Store(last.pre, last.key, StringItem(last.value, 0))

\* C6 witness: Set replaced a list whose TTL had already elapsed.
C6_Witness ==
  /\ last.op = "Set"
  /\ Held
  /\ PreItem.dataType = ListType
  /\ ExpiredAt(PreItem, last.t)
  /\ items[last.key].expireAt = 0

\* C7: Update returns KeyNotFound when the key is absent or expired,
\* TypeMismatch when it is present, unexpired and a list, and succeeds
\* otherwise; after a successful Update, Get returns (v, true).
C7_UpdateErrors ==
  last.op = "Update" =>
    IF ~Held \/ ExpiredAt(PreItem, last.t) THEN last.res.err = ErrKeyNotFound
    ELSE IF PreItem.dataType = ListType THEN last.res.err = ErrTypeMismatch
    ELSE /\ last.res.err = ErrNil
         /\ Get(items, last.key, now).res = Found(last.value)

\* C7 witness: Update was refused with TypeMismatch on an unexpired list.
C7_Witness ==
  /\ last.op = "Update"
  /\ Held
  /\ PreItem.dataType = ListType
  /\ ~ExpiredAt(PreItem, last.t)
  /\ last.res.err = ErrTypeMismatch

\* C8: a successful Update changes only the payload: expireAt (and so the
\* TTL reported and the moment of expiry) and the kind are what they were.
C8_UpdateKeepsExpiry ==
  (last.op = "Update" /\ last.res.err = ErrNil) =>
    /\ items = Store(last.pre, last.key, [PreItem EXCEPT !.value = [str |-> last.value]])
    /\ items[last.key].expireAt = PreItem.expireAt
    /\ items[last.key].dataType = PreItem.dataType
    /\ \A t \in Ahead :
         /\ GetTTL(items, last.key, t, t).res = GetTTL(last.pre, last.key, t, t).res
         /\ Exists(items, last.key, t).res = Exists(last.pre, last.key, t).res

\* C8 witness: a successful Update of a scalar with a pending TTL.
C8_Witness ==
  /\ last.op = "Update"
  /\ last.res.err = ErrNil
  /\ PreItem.expireAt # 0
  /\ PreItem.value.str # last.value

\* C9: type isolation.  On an unexpired scalar PushFront and PushBack
\* fail with TypeMismatch and leave the map unchanged, so a following Get
\* still returns the original value.
C9_PushOnScalar ==
  (/\ last.op \in {"PushFront", "PushBack"}
   /\ Held
   /\ PreItem.dataType = StringType
   /\ ~ExpiredAt(PreItem, last.t))
  => /\ last.res.err = ErrTypeMismatch
     /\ items = last.pre
     /\ Get(items, last.key, now).res = Found(PreItem.value.str)

\* C9 witness: PushFront was refused on an unexpired scalar with a TTL.
C9_Witness ==
  /\ last.op = "PushFront"
  /\ Held
  /\ PreItem.dataType = StringType
  /\ PreItem.expireAt # 0
  /\ ~ExpiredAt(PreItem, last.t)
  /\ last.res.err = ErrTypeMismatch

\* C10: PushFront and PushBack on a key that is absent or whose entry has
\* expired, whatever its former kind and elements, succeed and leave the
\* key a non-expiring list holding exactly the pushed value.
C10_PushCreatesList ==
  (/\ last.op \in {"PushFront", "PushBack"}
   /\ (~Held \/ ExpiredAt(PreItem, last.t)))
  => /\ last.res.err = ErrNil
     /\ items = Store(last.pre, last.key, ListItem(<<last.value>>, 0))

\* C10 witness: PushFront on an expired list that still held elements.
C10_Witness ==
  /\ last.op = "PushFront"
  /\ Held
  /\ PreItem.dataType = ListType
  /\ ExpiredAt(PreItem, last.t)
  /\ Len(PreItem.value.lst) > 0
  /\ items[last.key] = ListItem(<<last.value>>, 0)

\* the latest call found an unexpired list under its key
OnLiveList == Held /\ PreItem.dataType = ListType /\ ~ExpiredAt(PreItem, last.t)

\* what ListRange(key, 0, -1) returns on the map its at time t
WholeList(its, key, t) == ListRange(its, key, 0, -1, t).res.list

\* C11: list order.  On an unexpired list every PushFront prepends,
\* every PushBack appends, every PopFront drops and returns the head and
\* every PopBack drops and returns the last element of what
\* ListRange(k, 0, -1) returns, so after any sequence of them ListRange
\* equals the reference sequence; PushBack a, PushBack b, PushFront z
\* yields [z, a, b].
C11_ListOrder ==
  /\ (last.op \in {"PushFront", "PushBack", "PopFront", "PopBack"} /\ OnLiveList) =>
       LET before == WholeList(last.pre, last.key, last.t)
           after == WholeList(items, last.key, now)
           n == Len(before)
       IN /\ last.op = "PushFront" => after = <<last.value>> \o before
          /\ last.op = "PushBack" => after = before \o <<last.value>>
          /\ (last.op = "PopFront" /\ n > 0) =>
               /\ last.res = Found(before[1])
               /\ after = SubSeq(before, 2, n)
          /\ (last.op = "PopBack" /\ n > 0) =>
               /\ last.res = Found(before[n])
               /\ after = SubSeq(before, 1, n - 1)
  /\ LET s1 == PushBack(<<>>, "k", "a", 1).items
         s2 == PushBack(s1, "k", "b", 1).items
         s3 == PushFront(s2, "k", "z", 1).items
     IN WholeList(s3, "k", 1) = <<"z", "a", "b">>

\* C11 witness: PopBack returned the last of two different elements.
C11_Witness ==
  /\ last.op = "PopBack"
  /\ OnLiveList
  /\ Len(PreItem.value.lst) = 2
  /\ PreItem.value.lst[1] # PreItem.value.lst[2]
  /\ last.res = Found(PreItem.value.lst[2])

\* C12: PopFront and PopBack return ok = FALSE exactly when the key is
\* absent, expired, a scalar or an empty list; a scalar or an empty list
\* is left unchanged; in every other case they return ok = TRUE and
\* shorten the list by one.
C12_PopNotOk ==
  last.op \in {"PopFront", "PopBack"} =>
    LET gone == ~Held \/ ExpiredAt(PreItem, last.t)
        scalar == ~gone /\ PreItem.dataType = StringType
        empty == ~gone /\ PreItem.dataType = ListType /\ Len(PreItem.value.lst) = 0
    IN /\ ~last.res.ok <=> (gone \/ scalar \/ empty)
       /\ (scalar \/ empty) => items = last.pre
       /\ last.res.ok =>
            /\ items[last.key].dataType = ListType
            /\ items[last.key].expireAt = PreItem.expireAt
            /\ Len(items[last.key].value.lst) = Len(PreItem.value.lst) - 1

\* C12 witness: PopFront on an unexpired scalar reported not-ok and left
\* the scalar in place.
C12_Witness ==
  /\ last.op = "PopFront"
  /\ Held
  /\ PreItem.dataType = StringType
  /\ ~ExpiredAt(PreItem, last.t)
  /\ ~last.res.ok
  /\ items = last.pre

\* C13: emptiness and absence are distinct.  After the pop of the last
\* element the entry still exists with its expiration, Exists is true,
\* Type reports a list, ListRange returns an empty sequence without
\* error and further pops return not-ok; and an unexpired empty list
\* leaves the map only by Remove or Clear and is replaced only by
\* Set/SetWithTTL.
C13_EmptyListPersists ==
  /\ (last.op \in {"PopFront", "PopBack"} /\ last.res.ok /\ Len(PreItem.value.lst) = 1) =>
       /\ items = Store(last.pre, last.key, ListItem(<<>>, PreItem.expireAt))
       /\ Exists(items, last.key, now).res.ok
       /\ Type(items, last.key, now).res = [NoRes EXCEPT !.ok = TRUE, !.dt = ListType]
       /\ \A start \in Indexes, end \in Indexes :
            ListRange(items, last.key, start, end, now).res = NoRes
       /\ PopFront(items, last.key, now) = Out(items, NoRes)
       /\ PopBack(items, last.key, now) = Out(items, NoRes)
  /\ (last.op \notin {"none", "Stop", "stopped"}) =>
       \A k \in DOMAIN last.pre :
         (/\ last.pre[k].dataType = ListType
          /\ ~ExpiredAt(last.pre[k], last.t)
          /\ last.pre[k].value = [lst |-> <<>>])
         => /\ k \notin DOMAIN items => last.op \in {"Remove", "Clear"}
            /\ (k \in DOMAIN items /\ items[k].dataType # ListType)
                 => last.op \in {"Set", "SetWithTTL"}

Max(a, b) == IF a >= b THEN a ELSE b
Min(a, b) == IF a <= b THEN a ELSE b

\* the range the indexes (start, end) denote on a list l: positions
\* s..e, 0-based and inclusive, with negative indexes counted from the end
RefRange(l, start, end) ==
  LET n == Len(l)
      s == Max(0, IF start < 0 THEN n + start ELSE start)
      e == Min(n - 1, IF end < 0 THEN n + end ELSE end)
  IN IF s > e \/ s >= n THEN <<>> ELSE SubSeq(l, s + 1, e + 1)

\* C14: on an unexpired list of length n, for every pair of indexes,
\* negative and out of range included, ListRange returns without error
\* the elements at positions s..e, or the empty sequence when s > e or
\* s >= n; on a 3-element list (0,-1) and (-100,100) return all three
\* elements and (5,2) returns none, and on an empty list every range is
\* empty.
C14_ListRangeBounds ==
  (last.op = "ListRange" /\ OnLiveList) =>
    LET l == PreItem.value.lst IN
    /\ last.res = [NoRes EXCEPT !.list = RefRange(l, last.start, last.end)]
    /\ items = last.pre
    /\ (Len(l) = 3 /\ <<last.start, last.end>> \in {<<0, -1>>, <<-100, 100>>})
         => last.res.list = l
    /\ (Len(l) = 3 /\ <<last.start, last.end>> = <<5, 2>>) => last.res.list = <<>>
    /\ Len(l) = 0 => last.res.list = <<>>

\* C14 witness: ListRange(-100, 100) returned all of a 3-element list.
C14_Witness ==
  /\ last.op = "ListRange"
  /\ OnLiveList
  /\ PreItem.value.lst = <<"z", "a", "b">>
  /\ last.start = -100
  /\ last.end = 100
  /\ last.res.list = <<"z", "a", "b">>

\* C15: ListRange fails with KeyNotFound when the key is absent or its
\* entry, of either kind, is expired, and with TypeMismatch only when the
\* entry is present, unexpired and a scalar; both failures return no
\* elements, and a present unexpired entry is left as it was.
C15_ListRangeErrors ==
  last.op = "ListRange" =>
    LET live == Held /\ ~ExpiredAt(PreItem, last.t) IN
    /\ ~live => last.res.err = ErrKeyNotFound
    /\ last.res.err = ErrTypeMismatch <=> (live /\ PreItem.dataType = StringType)
    /\ last.res.err # ErrNil => last.res.list = <<>>
    /\ live => (items = last.pre /\ pc[last.proc] = "idle")

\* C15 witness: ListRange on an expired scalar returned KeyNotFound.
C15_Witness ==
  /\ last.op = "ListRange"
  /\ Held
  /\ PreItem.dataType = StringType
  /\ ExpiredAt(PreItem, last.t)
  /\ last.res.err = ErrKeyNotFound

\* C16: SetTTL fails with KeyNotFound when the key is absent or expired;
\* otherwise it succeeds for either kind, leaves payload and kind alone,
\* and sets expireAt to now + ttl when ttl > 0, whatever expiration was
\* there before, and to none when ttl <= 0, after which the key is found
\* at every later time.
C16_SetTTL ==
  last.op = "SetTTL" =>
    IF ~Held \/ ExpiredAt(PreItem, last.t)
      THEN last.res.err = ErrKeyNotFound /\ last.key \notin DOMAIN items
    ELSE /\ last.res = NoRes
         /\ items = Store(last.pre, last.key,
               [dataType |-> PreItem.dataType, value |-> PreItem.value,
                expireAt |-> IF last.ttl > 0 THEN last.t2 + last.ttl ELSE 0])
         /\ last.t2 = now
         /\ last.ttl <= 0 =>
              \A t \in Ahead : \A its \in Swept(items, t) :
                Exists(its, last.key, t).res.ok

\* C16 witness: SetTTL with a positive ttl replaced an earlier expiration
\* on a list.
C16_Witness ==
  /\ last.op = "SetTTL"
  /\ OnLiveList
  /\ PreItem.expireAt # 0
  /\ last.ttl > 0
  /\ last.res.err = ErrNil
  /\ items[last.key].expireAt # PreItem.expireAt

NoExpiration == [NoRes EXCEPT !.ttl = -1, !.ok = TRUE]

\* C17: GetTTL returns (-1, true) exactly when the key is present,
\* unexpired and without expiration, and found = false when the key is
\* absent or expired; the handler answers the first case with ttl = -1
\* and the second with 404; after Set and after a successful RemoveTTL
\* every later GetTTL is (-1, true).
C17_GetTTLSentinel ==
  /\ last.op = "GetTTL" =>
       LET live == Held /\ ~ExpiredAt(PreItem, last.t)
           resp == HandlerGetTTL(last.res.ttl, last.res.ok)
       IN /\ last.res = NoExpiration <=> (live /\ PreItem.expireAt = 0)
          /\ ~live => ~last.res.ok
          /\ (live /\ PreItem.expireAt = 0) => (resp.status = 200 /\ resp.ttl = -1)
          /\ resp.ttl = -1 => (live /\ PreItem.expireAt = 0)
          /\ ~live => (resp.status = 404 /\ resp.err = ErrKeyNotFound)
  /\ (last.op = "Set" \/ (last.op = "RemoveTTL" /\ last.res.err = ErrNil)) =>
       \A t \in Ahead : \A t2 \in {t, t + 1} : \A its \in Swept(items, t) :
         /\ GetTTL(its, last.key, t, t2) = Out(its, NoExpiration)
         /\ LET res == GetTTL(its, last.key, t, t2).res
            IN HandlerGetTTL(res.ttl, res.ok) = [status |-> 200, err |-> ErrNil, ttl |-> -1]

\* C17 witness: a successful RemoveTTL on a key that had an expiration,
\* after which GetTTL is (-1, true).
C17_Witness ==
  /\ last.op = "RemoveTTL"
  /\ last.res.err = ErrNil
  /\ PreItem.expireAt # 0
  /\ GetTTL(items, last.key, now, now).res = NoExpiration

\* C18 as stated: for a key with an expiration GetTTL returns found =
\* true only with a strictly positive expireAt - now, and not-found
\* whenever expireAt - now is zero or negative.
C18_GetTTLStrictlyPositive ==
  (last.op = "GetTTL" /\ Held /\ PreItem.expireAt # 0) =>
    /\ last.res.ok => last.res.ttl > 0
    /\ PreItem.expireAt - last.t2 <= 0 => ~last.res.ok

\* C18 amended: for a key with an expiration GetTTL returns found = true
\* exactly when expireAt - now is not negative, and then returns that
\* duration, which is 0 at the instant now = expireAt; when it is
\* negative GetTTL reports not-found, so the only negative duration ever
\* returned with found = true is the -1 of a key without expiration.
C18_GetTTLNonNegative ==
  last.op = "GetTTL" =>
    /\ (Held /\ PreItem.expireAt # 0) =>
         /\ last.res.ok <=> PreItem.expireAt - last.t2 >= 0
         /\ last.res.ok => last.res.ttl = PreItem.expireAt - last.t2
         /\ ~last.res.ok => last.res.ttl = 0
    /\ (last.res.ok /\ last.res.ttl < 0) =>
         (last.res.ttl = -1 /\ Held /\ PreItem.expireAt = 0)

\* C18 witness: GetTTL at the instant now = expireAt returned (0, true).
C18_Witness ==
  /\ last.op = "GetTTL"
  /\ Held
  /\ PreItem.expireAt = last.t2
  /\ last.res.ok
  /\ last.res.ttl = 0

\* C19: RemoveTTL(k) and SetTTL(k, 0) agree.  From the store and time
\* either of them ran in, the other returns the same result, KeyNotFound
\* when k is absent or expired and success otherwise, and leaves the same
\* store, in which k has no expiration.
C19_RemoveTTLIsSetTTLZero ==
  /\ last.op = "RemoveTTL" =>
       /\ \A t2 \in {last.t, last.t + 1} :
            SetTTL(last.pre, last.key, 0, last.t, t2) = Out(items, last.res)
       /\ last.res.err = IF Held /\ ~ExpiredAt(PreItem, last.t) THEN ErrNil
                         ELSE ErrKeyNotFound
       /\ last.res.err = ErrNil => items[last.key].expireAt = 0
  /\ (last.op = "SetTTL" /\ last.ttl = 0) =>
       /\ RemoveTTL(last.pre, last.key, last.t) = Out(items, last.res)
       /\ last.res.err = IF Held /\ ~ExpiredAt(PreItem, last.t) THEN ErrNil
                         ELSE ErrKeyNotFound
       /\ last.res.err = ErrNil => items[last.key].expireAt = 0

\* C19 witness: RemoveTTL found an expired entry and failed as
\* SetTTL(k, 0) does.
C19_Witness ==
  /\ last.op = "RemoveTTL"
  /\ Held
  /\ ExpiredAt(PreItem, last.t)
  /\ last.res.err = ErrKeyNotFound
  /\ SetTTL(last.pre, last.key, 0, last.t, last.t).res.err = ErrKeyNotFound

\* C20: Remove deletes whatever entry is stored under the key, expired
\* or not, and fails with KeyNotFound only when none is stored; after a
\* successful Remove, Exists is false and Get is not-found.
C20_RemoveUnconditional ==
  last.op = "Remove" =>
    /\ last.res.err = IF Held THEN ErrNil ELSE ErrKeyNotFound
    /\ items = IF Held THEN Delete(last.pre, last.key) ELSE last.pre
    /\ last.res.err = ErrNil =>
         \A t \in Ahead :
           /\ Exists(items, last.key, t) = Out(items, NoRes)
           /\ Get(items, last.key, t) = Out(items, NoRes)

\* C20 witness: Remove succeeded on an entry that had expired.
C20_Witness ==
  /\ last.op = "Remove"
  /\ Held
  /\ ExpiredAt(PreItem, last.t)
  /\ last.res.err = ErrNil
  /\ last.key \notin DOMAIN items

\* C21: Remove agrees with Exists on expired keys.  Whenever Exists on
\* the same store at the same moment would return false, the key being
\* absent or stored but expired, Remove returns KeyNotFound, as Update,
\* SetTTL and RemoveTTL do.
C21_RemoveAgreesWithExists ==
  (/\ last.op \in {"Remove", "Update", "SetTTL", "RemoveTTL"}
   /\ ~Exists(last.pre, last.key, last.t).res.ok)
    => last.res.err = ErrKeyNotFound

\* the calls of Exists and Type that are on their eviction path
Evicting(p) == pc[p] \in {"evict", "evictLocked", "relock", "return"}

C22_Results ==
  last.op \in {"Exists", "Type"} =>
    LET live == Held /\ ~ExpiredAt(PreItem, last.t) IN
    /\ last.res.ok <=> live
    /\ (last.op = "Type" /\ live) => last.res.dt = PreItem.dataType
    /\ ~live => last.res = NoRes
    /\ (Held /\ ~live) => (pc[last.proc] = "evict" /\ cur[last.proc].key = last.key)
    /\ ~(Held /\ ~live) => (pc[last.proc] = "idle" /\ items = last.pre)

C22_Evicted ==
  (last.op = "evict" /\ last.call.op \in {"Exists", "Type"}) =>
    last.key \notin DOMAIN items

C22_DeleteBeforeReturn ==
  \A p \in Procs :
    (Evicting(p) /\ cur[p].op \in {"Exists", "Type"}) =>
      /\ pc[p] \in {"evict", "evictLocked"} => pc'[p] \in {"evict", "evictLocked", "relock"}
      /\ (pc[p] = "evictLocked" /\ pc'[p] = "relock") => cur[p].key \notin DOMAIN items'
      /\ pc'[p] = "idle" => pc[p] = "return"

\* C22: Exists is true iff the key is stored and unexpired; Type returns
\* the stored kind with found = true under the same condition and found =
\* false otherwise; a call of either that finds the key stored but
\* expired does not return before it has deleted the key from the map.
C22_ExistsType ==
  /\ [](C22_Results /\ C22_Evicted)
  /\ [][C22_DeleteBeforeReturn]_vars

\* C22 witness: Type found an expired entry and has deleted it.
C22_Witness ==
  /\ last.op = "evict"
  /\ last.call.op = "Type"
  /\ last.key \in DOMAIN last.pre
  /\ ExpiredAt(last.pre[last.key], last.t)
  /\ last.key \notin DOMAIN items

\* the callers and the cleanup goroutine that are inside the lock
Inside == {p \in Procs : pc[p] \in {"locked", "rlocked", "evictLocked", "return"}}
           \cup (IF reaper = "cleanup" THEN {Reaper} ELSE {})

\* a writer inside the lock is alone there
Exclusive ==
  \A p \in Inside :
    (p = Reaper \/ pc[p] \in {"locked", "evictLocked"}) =>
      (Inside = {p} /\ mu = [writer |-> p, readers |-> {}])

\* C23: Clear always succeeds and leaves the store empty in one step
\* taken alone inside the lock, so no other call sees the store while it
\* is being cleared; afterwards Exists is false for every key stored
\* before; Clear on an empty store succeeds and leaves it empty, and a
\* second Clear changes nothing.
C23_Clear ==
  /\ Exclusive
  /\ last.op = "Clear" =>
       /\ last.res = NoRes
       /\ items = <<>>
       /\ Inside \subseteq {q \in Procs : pc[q] = "locked"}
       /\ \A k \in DOMAIN last.pre : \A t \in Ahead : ~Exists(items, k, t).res.ok
       /\ Clear(items) = Out(items, last.res)
       /\ Clear(Clear(last.pre).items) = Clear(last.pre)

\* C23 witness: Clear emptied a store of two keys.
C23_Witness ==
  /\ last.op = "Clear"
  /\ DOMAIN last.pre = StoreKeys
  /\ items = <<>>

KeyNotFound == [NoRes EXCEPT !.err = ErrKeyNotFound]

\* C24: on a key that is not stored every operation reports absence and
\* changes nothing: Get, Exists, Type, GetTTL, PopFront and PopBack
\* return found/ok = false, and ListRange, Update, SetTTL, RemoveTTL and
\* Remove return KeyNotFound.
C24_AbsentKey ==
  (/\ last.op \in {"Get", "Exists", "Type", "GetTTL", "PopFront", "PopBack",
                   "ListRange", "Update", "SetTTL", "RemoveTTL", "Remove"}
   /\ ~Held) =>
    /\ last.res = IF last.op \in {"ListRange", "Update", "SetTTL", "RemoveTTL", "Remove"}
                    THEN KeyNotFound ELSE NoRes
    /\ items = last.pre
    /\ pc[last.proc] = "idle"

\* C24 witness: Update on a key that is not stored returned KeyNotFound.
C24_Witness ==
  /\ last.op = "Update"
  /\ ~Held
  /\ last.res.err = ErrKeyNotFound
  /\ items = last.pre

InPlaceOps ==
  {"Update", "PushFront", "PushBack", "PopFront", "PopBack", "ListRange",
   "SetTTL", "RemoveTTL", "Get", "GetTTL", "Exists", "Type"}

\* C25: the kind of an entry never changes in place.  None of Update,
\* the pushes and pops, ListRange, SetTTL, RemoveTTL, Get, GetTTL, Exists
\* and Type changes the kind of a present unexpired key, and in no step
\* does the kind under a key change except by Set/SetWithTTL or by a push
\* that recreates an expired entry.
C25_KindImmutable ==
  /\ (last.op \in InPlaceOps /\ Held /\ ~ExpiredAt(PreItem, last.t)) =>
       /\ last.key \in DOMAIN items
       /\ items[last.key].dataType = PreItem.dataType
  /\ last.op \notin {"none", "Stop", "stopped"} =>
       \A k \in DOMAIN last.pre \cap DOMAIN items :
         items[k].dataType # last.pre[k].dataType =>
           \/ last.op \in {"Set", "SetWithTTL"}
           \/ /\ last.op \in {"PushFront", "PushBack"}
              /\ k = last.key
              /\ ExpiredAt(last.pre[k], last.t)

\* C25 witness: PushBack on an unexpired scalar left it a scalar.
C25_Witness ==
  /\ last.op = "PushBack"
  /\ Held
  /\ PreItem.dataType = StringType
  /\ ~ExpiredAt(PreItem, last.t)
  /\ items[last.key].dataType = StringType

\* the unexpired entries of a map at time t
Unexpired(its, t) ==
  [k \in {j \in DOMAIN its : ~ExpiredAt(its[j], t)} |-> its[k]]

\* C26: a write that returns an error has no effect.  When Update,
\* PushFront, PushBack, SetTTL, RemoveTTL or Remove returns KeyNotFound
\* or TypeMismatch the map is as before, except that the expired entry of
\* the addressed key may have been deleted; the unexpired entries, with
\* kind, payload and expiration, are the same.
C26_FailedWriteNoEffect ==
  (/\ last.op \in {"Update", "PushFront", "PushBack", "SetTTL", "RemoveTTL", "Remove"}
   /\ last.res.err # ErrNil) =>
    /\ \/ items = last.pre
       \/ /\ Held
          /\ ExpiredAt(PreItem, last.t)
          /\ items = Delete(last.pre, last.key)
    /\ \A t \in {last.t, now} : Unexpired(items, t) = Unexpired(last.pre, t)

\* C26 witness: Update on an unexpired list returned TypeMismatch and
\* left the map as it was.
C26_Witness ==
  /\ last.op = "Update"
  /\ OnLiveList
  /\ last.res.err = ErrTypeMismatch
  /\ items = last.pre

\* C27: one sweep removes exactly the entries whose expireAt is set and
\* strictly before the time of the sweep; every other entry keeps its
\* kind, payload and expiration; the goroutine is alone inside the lock
\* from the start of the sweep to its end.
C27_Sweep ==
  /\ reaper = "cleanup" => (Inside = {Reaper} /\ mu = [writer |-> Reaper, readers |-> {}])
  /\ last.op = "cleanup" =>
       /\ DOMAIN items =
            {k \in DOMAIN last.pre :
               last.pre[k].expireAt = 0 \/ last.pre[k].expireAt >= last.t}
       /\ \A k \in DOMAIN items : items[k] = last.pre[k]
       /\ Inside = {}

\* C27 witness: a sweep of two entries removed the expired one and kept
\* the one whose expiration is the instant of the sweep.
C27_Witness ==
  /\ last.op = "cleanup"
  /\ DOMAIN last.pre = StoreKeys
  /\ \E k \in StoreKeys :
       /\ DOMAIN items = {k}
       /\ items[k].expireAt = last.t

\* the cleanup goroutine is running and has not been asked to stop
ReaperRuns == reaper \in {"select", "cleanup"} /\ \A p \in Procs : pc[p] # "stopping"

ExpiredStored(k) == k \in DOMAIN items /\ ExpiredAt(items[k], now)

\* C28: automatic cleanup.  In a store created with a positive interval,
\* an entry whose expiration has passed is eventually gone from the map,
\* whether or not a caller touches the key again, unless Stop is called;
\* the goroutine and its ticker are scheduled fairly.
C28_AutomaticCleanup ==
  \A k \in StoreKeys :
    (ExpiredStored(k) /\ ReaperRuns) ~> (~ExpiredStored(k) \/ ~ReaperRuns)

\* C28 witness: a sweep of the cleanup goroutine removed an expired entry
\* that no caller had evicted.
C28_Witness ==
  /\ last.op = "cleanup"
  /\ "k1" \in DOMAIN last.pre
  /\ ExpiredAt(last.pre["k1"], last.t)
  /\ "k1" \notin DOMAIN items
  /\ \A p \in Procs : pc[p] = "idle"

\* a Stop call by p is the only one outstanding
SingleStop(p) ==
  /\ pc[p] = "stopping"
  /\ reaper # "stopped"
  /\ \A q \in Procs \ {p} : pc[q] # "stopping"

C29_StopReturns ==
  \A p \in Procs :
    SingleStop(p) ~> \/ pc[p] = "idle" /\ reaper = "stopped"
                     \/ \E q \in Procs \ {p} : pc[q] = "stopping"

C29_Terminated ==
  /\ reaper = "stopped" => reaper' = "stopped"
  /\ reaper' = "stopped" =>
       \/ reaper = "stopped"
       \/ reaper = "select" /\ \E p \in Procs : pc[p] = "stopping" /\ pc'[p] = "idle"
  /\ \A p \in Procs : (pc[p] = "stopping" /\ pc'[p] # "stopping") =>
       (pc'[p] = "idle" /\ reaper' = "stopped" /\ reaper = "select")

\* C29: a single Stop on a store with a running cleanup goroutine, also
\* when called during a sweep or while callers hold the lock, eventually
\* returns; it returns only by handing the signal to the goroutine, which
\* then has terminated; no sweep starts after that.
C29_Stop ==
  /\ C29_StopReturns
  /\ [][C29_Terminated]_vars

\* C29 witness: Stop has returned with the goroutine stopped while the
\* other caller was in the middle of an eviction.
C29_Witness ==
  /\ last.op = "stopped"
  /\ reaper = "stopped"
  /\ pc[last.proc] = "idle"
  /\ \E q \in Procs : pc[q] \in {"evict", "relock"}

\* the callers that are inside a call of a store operation
Started(p) == pc[p] \notin {"idle", "stopping"}

\* C30: no store operation blocks for ever.  With two callers running
\* any mix of operations, evictions on the read paths included, and the
\* cleanup goroutine sweeping, every call that has started returns and
\* every sweep that has started ends, under fair scheduling of the lock.
C30_NoOperationBlocks ==
  /\ \A p \in Procs : Started(p) ~> (pc[p] = "idle")
  /\ (reaper = "cleanup") ~> (reaper = "select")

\* C30 witness: one caller is about to take the exclusive lock to evict
\* while the other holds the lock.
C30_Witness ==
  \E p \in Procs, q \in Procs :
    /\ pc[p] = "evict"
    /\ pc[q] \in {"locked", "rlocked"}

\* the call c made on the map its instead of the map it found
Apply(c, its) ==
  CASE c.op = "Get" -> Get(its, c.key, c.t)
    [] c.op = "Set" -> Set(its, c.key, c.value, c.t)
    [] c.op = "SetWithTTL" -> SetWithTTL(its, c.key, c.value, c.ttl, c.t)
    [] c.op = "Update" -> Update(its, c.key, c.value, c.t)
    [] c.op = "Remove" -> Remove(its, c.key)
    [] c.op = "PushFront" -> PushFront(its, c.key, c.value, c.t)
    [] c.op = "PushBack" -> PushBack(its, c.key, c.value, c.t)
    [] c.op = "PopFront" -> PopFront(its, c.key, c.t)
    [] c.op = "PopBack" -> PopBack(its, c.key, c.t)
    [] c.op = "ListRange" -> ListRange(its, c.key, c.start, c.end, c.t)
    [] c.op = "SetTTL" -> SetTTL(its, c.key, c.ttl, c.t, c.t2)
    [] c.op = "GetTTL" -> GetTTL(its, c.key, c.t, c.t2)
    [] c.op = "RemoveTTL" -> RemoveTTL(its, c.key, c.t)
    [] c.op = "Exists" -> Exists(its, c.key, c.t)
    [] c.op = "Type" -> Type(its, c.key, c.t)
    [] OTHER -> Clear(its)

StoreOps ==
  {"Get", "Set", "SetWithTTL", "Update", "Remove", "PushFront", "PushBack",
   "PopFront", "PopBack", "ListRange", "SetTTL", "GetTTL", "RemoveTTL",
   "Exists", "Type", "Clear"}

\* C31: sweeps are invisible.  Whatever sweeps ran before a call, the
\* call returns what it returns on the unswept map, for every operation,
\* Remove included, and the two maps it leaves hold the same unexpired
\* entries, so that the calls that follow agree as well.
C31_SweepsInvisible ==
  last.op \in StoreOps =>
    \A t1 \in 1..last.t :
      LET swept == Apply(last, cleanup(last.pre, t1))
          plain == Apply(last, last.pre)
      IN /\ swept.res = last.res
         /\ plain.res = last.res
         /\ Unexpired(swept.items, now) = Unexpired(plain.items, now)

\* the response of the handler that made the call c
Response(c) ==
  CASE c.op = "Get" -> HandlerGetString(c.res)
    [] c.op \in {"Set", "SetWithTTL"} -> HandlerSetString(c.res)
    [] c.op = "Update" -> HandlerUpdateString(c.res)
    [] c.op = "Remove" -> HandlerRemove(c.res)
    [] c.op = "Exists" -> HandlerExists(c.res)
    [] c.op = "Type" -> HandlerType(c.res)
    [] c.op \in {"PushFront", "PushBack"} -> HandlerPush(c.res)
    [] c.op \in {"PopFront", "PopBack"} -> HandlerPop(c.res)
    [] c.op = "ListRange" -> HandlerListRange(c.res)
    [] c.op = "SetTTL" -> HandlerSetTTL(c.res)
    [] c.op = "RemoveTTL" -> HandlerRemoveTTL(c.res)
    [] c.op = "GetTTL" ->
         LET r == HandlerGetTTL(c.res.ttl, c.res.ok)
         IN [status |-> r.status, err |-> r.err]
    [] OTHER -> HandlerClear(c.res)

Success == {200, 201}

\* C32: the handlers keep the errors of the cache apart.  KeyNotFound,
\* and found = false from Get, GetTTL or Type, is answered 404 with the
\* key-not-found error; TypeMismatch is answered 400; a nil error is
\* answered with a success; no error of the cache is answered with a
\* success.
C32_ErrorsPreserved ==
  last.op \in StoreOps =>
    LET r == Response(last)
        notFound == last.op \in {"Get", "GetTTL", "Type", "PopFront", "PopBack"}
                      /\ ~last.res.ok
    IN /\ (last.res.err = ErrKeyNotFound
             \/ (last.op \in {"Get", "GetTTL", "Type"} /\ ~last.res.ok)) =>
            r = WriteError(404, ErrKeyNotFound)
       /\ last.res.err = ErrTypeMismatch => r = WriteError(400, ErrTypeMismatch)
       /\ (last.res.err = ErrNil /\ ~notFound) => (r.status \in Success /\ r.err = ErrNil)
       /\ r.status \in Success => (last.res.err = ErrNil /\ ~notFound)

\* C32 witness: Update on an unexpired list was answered 400.
C32_Witness ==
  /\ last.op = "Update"
  /\ OnLiveList
  /\ last.res.err = ErrTypeMismatch
  /\ Response(last).status = 400

\* C33: the ttl field of PUT ttl/{key} counts seconds, as the ttl field
\* of POST string/{key} does.  A body with ttl = n > 0 on a stored key sets
\* the expiration n seconds after the call, where POST string with the
\* same n sets it, and the response reports ttl = n.
C33_TTLInSeconds ==
  /\ (last.op = "POST string" /\ last.n > 0) =>
       items[last.key].expireAt = last.t2 + last.n * Second
  /\ (last.op = "PUT ttl" /\ last.n > 0 /\ last.res.err = ErrNil) =>
       /\ items[last.key].expireAt = last.t2 + last.n * Second
       /\ last.ttl = [whole |-> last.n, frac |-> 0]
       /\ last.response.status = 200

\* the processes between a Lock and its Unlock, and between an RLock and
\* its RUnlock
Writers == {p \in Procs : pc[p] \in {"locked", "evictLocked"}}
             \cup (IF reaper = "cleanup" THEN {Reaper} ELSE {})
Readers == {p \in Procs : pc[p] \in {"rlocked", "return"}}

C34_Holders ==
  /\ Cardinality(Writers) <= 1
  /\ Writers # {} => Readers = {}
  /\ mu.readers = Readers
  /\ mu.writer = IF Writers = {} THEN NoWriter ELSE CHOOSE w \in Writers : TRUE

C34_WritesUnderLock ==
  /\ items' # items =>
       /\ Writers # {}
       /\ Readers = {}
       /\ \E w \in Writers : w \notin Writers'
  /\ \A p \in Readers : p \notin Readers' => items' = items

\* C34: lock discipline.  At most one process is between Lock and Unlock,
\* and none is between RLock and RUnlock at the same time; every step
\* that changes the map, the evictions of the read paths and the deletes
\* of the sweep included, is taken by the process that holds the
\* exclusive lock; a step taken under the shared lock changes nothing.
C34_LockDiscipline ==
  /\ []C34_Holders
  /\ [][C34_WritesUnderLock]_vars

\* C34 witness: a read path holds the exclusive lock for its eviction
\* while the other caller waits to evict as well.
C34_Witness ==
  \E p \in Procs, q \in Procs :
    /\ pc[p] = "evictLocked"
    /\ mu.writer = p
    /\ pc[q] = "evict"

\* C35: SetWithTTL with ttl <= 0 is not rejected and does what Set
\* does: it returns nil and stores a scalar without expiration, GetTTL
\* then returns (-1, true), and the key is found at every later time.
C35_NonPositiveTTLIsSet ==
  (last.op = "SetWithTTL" /\ last.ttl <= 0) =>
    /\ last.res = NoRes
    /\ Set(last.pre, last.key, last.value, last.t) = Out(items, last.res)
    /\ items[last.key] = StringItem(last.value, 0)
    /\ \A t \in Ahead : \A its \in Swept(items, t) :
         /\ GetTTL(its, last.key, t, t).res = NoExpiration
         /\ Get(its, last.key, t).res = Found(last.value)

\* C35 witness: SetWithTTL with a negative ttl replaced an entry that had
\* an expiration.
C35_Witness ==
  /\ last.op = "SetWithTTL"
  /\ last.ttl < 0
  /\ Held
  /\ PreItem.expireAt # 0
  /\ items[last.key].expireAt = 0

\* C36: a store created with an interval <= 0 has no cleanup goroutine;
\* its Stop returns at once and sends nothing; an expired entry leaves
\* the map only through a call on its key or through Clear, never through
\* a sweep.
C36_NoReaper ==
  /\ cleanupInterval <= 0
  /\ reaper = "off"
  /\ \A p \in Procs : pc[p] # "stopping"
  /\ last.op = "Stop" => pc[last.proc] = "idle"
  /\ last.op # "cleanup"
  /\ last.op \notin {"none", "Stop", "stopped"} =>
       \A k \in DOMAIN last.pre :
         (ExpiredAt(last.pre[k], last.t) /\ (k \notin DOMAIN items \/ items[k] # last.pre[k])) =>
           \/ last.op = "Clear"
           \/ /\ k = last.key
              /\ last.op \in {"evict", "Remove", "Set", "SetWithTTL", "Update",
                              "PushFront", "PopFront", "SetTTL"}

\* C36 witness: Stop has returned on a store without a reaper, in which
\* an expired entry is still stored.
C36_Witness ==
  /\ last.op = "Stop"
  /\ cleanupInterval < 0
  /\ pc[last.proc] = "idle"
  /\ \E k \in DOMAIN items : ExpiredAt(items[k], now)

Stopping == {p \in Procs : pc[p] = "stopping"}

C37_LateStopBlocks ==
  (last.op = "Stop" /\ reaper = "stopped") => pc[last.proc] = "stopping"

C37_BlockedForEver ==
  \A p \in Procs :
    (reaper = "stopped" /\ pc[p] = "stopping") => pc'[p] = "stopping"

C37_OneOfTwoReturns ==
  (Stopping = Procs /\ reaper # "stopped")
    ~> (reaper = "stopped" /\ last.op = "stopped" /\ Cardinality(Stopping) = 1)

\* C37: Stop is not repeatable.  With a positive interval, a Stop called
\* after the goroutine has exited blocks on the channel and never
\* returns, and of two Stop calls outstanding together one returns and
\* the other stays blocked.
C37_StopNotRepeatable ==
  /\ []C37_LateStopBlocks
  /\ [][C37_BlockedForEver]_vars
  /\ C37_OneOfTwoReturns

\* C37 witness: a second Stop, called after the first had returned and the
\* goroutine had exited, is blocked.
C37_Witness ==
  /\ last.op = "Stop"
  /\ reaper = "stopped"
  /\ pc[last.proc] = "stopping"
  /\ Stopping = {last.proc}

ListWrites == {"PushFront", "PushBack", "PopFront", "PopBack"}

\* C38: pushes and pops on a present unexpired list leave its expireAt as
\* it was, so the list expires at the instant it would have expired
\* without them; only a push that finds the list expired recreates it
\* without expiration.
C38_ListKeepsExpiry ==
  /\ (last.op \in ListWrites /\ OnLiveList) =>
       /\ items[last.key].expireAt = PreItem.expireAt
       /\ \A t \in Ahead :
            Exists(items, last.key, t).res.ok = Exists(last.pre, last.key, t).res.ok
  /\ (last.op \in {"PushFront", "PushBack"} /\ Held /\ ExpiredAt(PreItem, last.t)) =>
       items[last.key] = ListItem(<<last.value>>, 0)
  /\ (last.op \in ListWrites /\ last.key \in DOMAIN items /\ Held
        /\ items[last.key].expireAt # PreItem.expireAt) =>
       (last.op \in {"PushFront", "PushBack"} /\ ExpiredAt(PreItem, last.t))

\* C38 witness: PopBack took an element from a list that has an
\* expiration, which it kept.
C38_Witness ==
  /\ last.op = "PopBack"
  /\ OnLiveList
  /\ PreItem.expireAt # 0
  /\ last.res.ok
  /\ items[last.key].expireAt = PreItem.expireAt

\* C39: key isolation.  A call on key k, whichever of the fifteen
\* operations it is, and the eviction a read path performs for k, leave
\* every other key as it was: stored or not, and if stored with the same
\* kind, payload and expiration.
C39_KeyIsolation ==
  last.op \in (StoreOps \ {"Clear"}) \cup {"evict"} =>
    \A j \in StoreKeys \ {last.key} :
      /\ j \in DOMAIN items <=> j \in DOMAIN last.pre
      /\ j \in DOMAIN items => items[j] = last.pre[j]

\* C39 witness: a read path evicted the expired entry of its key and the
\* expired entry of the other key is still stored.
C39_Witness ==
  /\ last.op = "evict"
  /\ last.key \in DOMAIN last.pre
  /\ last.key \notin DOMAIN items
  /\ \E j \in StoreKeys \ {last.key} :
       /\ j \in DOMAIN items
       /\ ExpiredAt(items[j], now)
       /\ items[j] = last.pre[j]

\* C40: in every reachable state the type tag of each stored entry
\* matches its payload: an entry tagged StringType holds a string and an
\* entry tagged ListType holds a list of strings, so the casts
\* item.value.(string) and item.value.(*list.List) never fail.
C40_TagMatchesPayload ==
  \A k \in DOMAIN items :
    /\ items[k].dataType \in {StringType, ListType}
    /\ items[k].dataType = StringType =>
         IsStr(items[k].value) /\ items[k].value.str \in Values
    /\ items[k].dataType = ListType =>
         /\ IsLst(items[k].value)
         /\ \A i \in 1..Len(items[k].value.lst) : items[k].value.lst[i] \in Values

\* C40 witness: a push found an expired string under the key and left a
\* list there, tag and payload replaced together.
C40_Witness ==
  /\ last.op \in {"PushFront", "PushBack"}
  /\ last.key \in DOMAIN last.pre
  /\ last.pre[last.key].dataType = StringType
  /\ last.key \in DOMAIN items
  /\ items[last.key].dataType = ListType
  /\ IsLst(items[last.key].value)

====
